---- MODULE Spec2Model ----
(***************************************************************************)
(* A model of src/vq_vae_2/vq_vae.py: the hierarchical VQ-VAE.             *)
(*                                                                         *)
(* Tensors are one-element feature maps: a record [val, kind] where val is *)
(* the numeric value and kind records how the tensor was produced          *)
(* ("input", "encoded", "embedded", "passthrough", "decoded"), so that a   *)
(* quantized tensor is never mistaken for a continuous one carrying the    *)
(* same number.  Losses are kept in hundredths (0.25 is 25) so that the    *)
(* commitment coefficient stays an integer.                                *)
(*                                                                         *)
(* A behaviour is one use of the module by a single-threaded caller: it    *)
(* either builds a VQVAE and runs forward passes on it, or applies an      *)
(* Encoder, or builds / applies a QuarterDecoder.                          *)
(***************************************************************************)
EXTENDS Integers, Sequences, FiniteSets, TLC

VARIABLES
    ctor,           \* VQVAE.__init__: "none", "ok" or the exception it raised
    ctorArgs,       \* the <<encoders, decoders>> lists handed to VQVAE.__init__
    encoders,       \* self.encoders
    decoders,       \* self.decoders
    pc,             \* VQVAE.forward: "idle", "encode", "decode", "done", "raised"
    inputs,         \* forward's inputs argument
    commitArg,      \* history: forward's commitment as the caller gave it
    commitment,     \* forward's commitment, in hundredths
    all_encoded,    \* forward's local list
    all_vq_outs,    \* forward's local list
    total_vq_loss,  \* in hundredths
    total_vq_mse,   \* in hundredths
    last_mse,       \* <<>> is None, <<m>> a value in hundredths
    pos,            \* number of iterations the decoder loop has started
    result,         \* <<>> while nothing was returned, <<dict>> after return
    error,          \* the exception forward raised, "" when none
    calls,          \* history: the calls forward made on its collaborators
    enc,            \* Encoder.forward: the call's record
    qinit,          \* QuarterDecoder.__init__: the call's record
    qd              \* QuarterDecoder.forward: the call's record

vars == <<ctor, ctorArgs, encoders, decoders, pc, inputs, commitArg,
          commitment, all_encoded, all_vq_outs, total_vq_loss, total_vq_mse, last_mse,
          pos, result, error, calls, enc, qinit, qd>>

vqvaeVars == <<ctor, ctorArgs, encoders, decoders, pc, inputs, commitArg,
               commitment, all_encoded, all_vq_outs, total_vq_loss, total_vq_mse,
               last_mse, pos, result, error, calls>>

----------------------------------------------------------------------------
(* Bounds of the model.                                                    *)

MaxLevels == 2          \* longest encoder / decoder list handed to VQVAE
MaxInput == 2           \* raw input values are 0..MaxInput
MaxDim == 8             \* feature maps are up to MaxDim x MaxDim
RecursionLimit == 4     \* depth at which the interpreter raises RecursionError

None == <<>>
Some(v) == <<v>>

Tensor(v, k) == [val |-> v, kind |-> k]

Sq(x) == x * x

\* A concrete Encoder: its encode() adds bias, its VQ owns codebook.
EncoderSet ==
    { [bias |-> 1, codebook |-> <<0, 2>>],
      [bias |-> 3, codebook |-> <<1, 4, 7>>] }

\* A concrete Decoder: a generic one that overrides forward() and sums its
\* inputs plus a bias, or a QuarterDecoder.
DecoderSet ==
    { [class |-> "Decoder", bias |-> 1],
      [class |-> "QuarterDecoder", bias |-> 0] }

SeqsUpTo(S, n) == UNION { [1..m -> S] : m \in 0..n }

InputSet == { Tensor(v, "input") : v \in 0..MaxInput }

\* forward's optional commitment argument: omitted, or a value in hundredths.
CommitmentArgs == { None, Some(0), Some(100) }

----------------------------------------------------------------------------
(* Collaborators.                                                          *)

\* Encoder.encode as overridden by a concrete encoder.
Encode(e, x) == Tensor(x.val + e.bias, "encoded")

Dist(a, b) == Sq(a - b)

\* VQ: index of the nearest codebook entry, lowest index on ties.
Nearest(cb, v) ==
    CHOOSE i \in 1..Len(cb) :
        /\ \A j \in 1..Len(cb) : Dist(cb[i], v) <= Dist(cb[j], v)
        /\ \A j \in 1..(i - 1) : Dist(cb[j], v) > Dist(cb[i], v)

\* VQ.forward: (embedded, embedded_pt, idxs).
VQApply(e, x) ==
    LET i == Nearest(e.codebook, x.val)
    IN  << Tensor(e.codebook[i], "embedded"),
           Tensor(e.codebook[i], "passthrough"),
           i - 1 >>

\* vq_loss in hundredths: embedding loss plus commitment times commitment loss.
VqLoss(encoded, embedded, c) ==
    100 * Sq(embedded.val - encoded.val) + c * Sq(encoded.val - embedded.val)

\* torch.mean(torch.pow(a - b, 2)) in hundredths.
Mse(a, b) == 100 * Sq(a.val - b.val)

RECURSIVE SumVals(_)
SumVals(s) == IF s = << >> THEN 0 ELSE Head(s).val + SumVals(Tail(s))

\* Decoder.forward as overridden by a generic concrete decoder.
DecoderApply(d, xs) == Tensor(SumVals(xs) + d.bias, "decoded")

\* Python sequence helpers.
Reverse(s) == [i \in 1..Len(s) |-> s[Len(s) + 1 - i]]

\* s[:n]
Prefix(s, n) == SubSeq(s, 1, IF n < Len(s) THEN n ELSE Len(s))

----------------------------------------------------------------------------
(* VQVAE.__init__                                                          *)

\* A slip in the assertion of line 150: <= for ==.
LengthsAgreeSlip(es, ds) == Len(es) <= Len(ds)

\* line 150: assert len(encoders) == len(decoders)
LengthsAgree(es, ds) == Len(es) = Len(ds)

Untouched ==
    /\ ctor = "none"
    /\ enc.pc = "idle"
    /\ qinit.pc = "idle"
    /\ qd.pc = "idle"

VQVAEInit(es, ds) ==
    /\ Untouched
    /\ ctorArgs' = <<es, ds>>
    /\ IF LengthsAgree(es, ds)
         THEN /\ ctor' = "ok"
              /\ encoders' = es
              /\ decoders' = ds
         ELSE /\ ctor' = "AssertionError"
              /\ UNCHANGED <<encoders, decoders>>
    /\ UNCHANGED <<pc, inputs, commitArg, commitment, all_encoded, all_vq_outs,
                   total_vq_loss, total_vq_mse, last_mse, pos, result, error,
                   calls, enc, qinit, qd>>

----------------------------------------------------------------------------
(* VQVAE.forward                                                           *)

\* line 158: commitment=0.25
DefaultCommitment == 25

CommitmentOf(arg) == IF arg = None THEN DefaultCommitment ELSE arg[1]

\* line 171
InitAllEncoded(x) == <<x>>

\* lines 171-174: the locals before the encoder loop.
ForwardCall(x, carg) ==
    /\ ctor = "ok"
    /\ pc \in {"idle", "done", "raised"}
    /\ inputs' = x
    /\ commitArg' = carg
    /\ commitment' = CommitmentOf(carg)
    /\ all_encoded' = InitAllEncoded(x)
    /\ all_vq_outs' = << >>
    /\ total_vq_loss' = 0
    /\ total_vq_mse' = 0
    /\ last_mse' = None
    /\ pos' = 0
    /\ result' = None
    /\ error' = ""
    /\ calls' = << >>
    /\ pc' = "encode"
    /\ UNCHANGED <<ctor, ctorArgs, encoders, decoders, enc, qinit, qd>>

\* A slip in line 176: the next level is fed the quantized output,
\* all_vq_outs[-1], once there is one.
EncodeInputSlip(ae, vq) == IF vq = << >> THEN ae[Len(ae)] ELSE vq[Len(vq)]

\* line 176: the argument of encoder.encode, all_encoded[-1]
EncodeInput(ae, vq) == ae[Len(ae)]

\* A slip in line 178: the last element is overwritten, nothing is appended.
AppendEncodedSlip(ae, encoded) == [ae EXCEPT ![Len(ae)] = encoded]

\* line 178
AppendEncoded(ae, encoded) == Append(ae, encoded)

\* line 179: the element of VQ's triple that is kept
KeptQuantized(triple) == triple[2]

\* line 180: the arguments of vq_loss
LossTerm(encoded, triple, c) == VqLoss(encoded, triple[1], c)

\* lines 175-180: one iteration of the encoder loop.
EncodeStep ==
    /\ pc = "encode"
    /\ Len(all_vq_outs) < Len(encoders)
    /\ LET e == encoders[Len(all_vq_outs) + 1]
           arg == EncodeInput(all_encoded, all_vq_outs)
           encoded == Encode(e, arg)
           triple == VQApply(e, encoded)
       IN  /\ all_encoded' = AppendEncoded(all_encoded, encoded)
           /\ all_vq_outs' = Append(all_vq_outs, KeptQuantized(triple))
           /\ total_vq_loss' = total_vq_loss + LossTerm(encoded, triple, commitment)
           /\ calls' = calls \o
                << [fn |-> "encode", by |-> e, args |-> <<arg>>],
                   [fn |-> "vq", by |-> e, args |-> <<encoded>>],
                   [fn |-> "vq_loss", by |-> e,
                    args |-> <<encoded, triple[1], Tensor(commitment, "scalar")>>] >>
    /\ UNCHANGED <<ctor, ctorArgs, encoders, decoders, pc, inputs, commitArg,
                   commitment, total_vq_mse, last_mse, pos, result, error, enc, qinit, qd>>

\* A slip in line 181: a number where None stands.
InitLastMseSlip == Some(0)

\* line 181: last_mse = None
InitLastMse == None

\* line 181: the encoder loop is exhausted.
EncodeDone ==
    /\ pc = "encode"
    /\ Len(all_vq_outs) = Len(encoders)
    /\ last_mse' = InitLastMse
    /\ pc' = "decode"
    /\ UNCHANGED <<ctor, ctorArgs, encoders, decoders, inputs, commitArg,
                   commitment, all_encoded, all_vq_outs, total_vq_loss,
                   total_vq_mse, pos,
                   result, error, calls, enc, qinit, qd>>

\* line 182: "for i, decoder in self.decoders" unpacks each element of the
\* list into two names.  The elements are decoder modules, which are not
\* iterable, so nothing unpacks.
Unpackable(item) == item.class \notin {"Decoder", "QuarterDecoder"}

\* line 183: all_vq_outs[::-1][:i + 1]
DecInputs(vq, i) == Prefix(Reverse(vq), i + 1)

\* line 184: all_encoded[::-1][i + 1]
Target(ae, i) == Reverse(ae)[i + 2]

\* lines 128-129: a QuarterDecoder takes exactly one input.
DecoderAccepts(d, xs) == d.class = "QuarterDecoder" => Len(xs) = 1

\* lines 182-186: one iteration of the decoder loop.
DecodeStep ==
    /\ pc = "decode"
    /\ pos < Len(decoders)
    /\ pos' = pos + 1
    /\ LET item == decoders[pos + 1]
       IN  IF ~Unpackable(item)
             THEN /\ error' = "TypeError"
                  /\ pc' = "raised"
                  /\ UNCHANGED <<last_mse, total_vq_mse, calls>>
             ELSE LET i == item.i
                      decoder == item.decoder
                      dec_inputs == DecInputs(all_vq_outs, i)
                      target == Target(all_encoded, i)
                  IN  IF ~DecoderAccepts(decoder, dec_inputs)
                        THEN /\ error' = "AssertionError"
                             /\ pc' = "raised"
                             /\ UNCHANGED <<last_mse, total_vq_mse, calls>>
                        ELSE LET mse == Mse(DecoderApply(decoder, dec_inputs), target)
                             IN  /\ last_mse' = Some(mse)
                                 /\ total_vq_mse' = total_vq_mse + mse
                                 /\ calls' = Append(calls,
                                       [fn |-> "decoder", by |-> decoder,
                                        args |-> dec_inputs, target |-> target])
                                 /\ UNCHANGED <<error, pc>>
    /\ UNCHANGED <<ctor, ctorArgs, encoders, decoders, inputs, commitArg,
                   commitment, all_encoded, all_vq_outs, total_vq_loss, result,
                   enc, qinit, qd>>

\* lines 187-190: the decoder loop is exhausted.
ForwardReturn ==
    /\ pc = "decode"
    /\ pos = Len(decoders)
    /\ result' = Some([loss |-> total_vq_loss + total_vq_mse,
                       final_mse |-> last_mse])
    /\ pc' = "done"
    /\ UNCHANGED <<ctor, ctorArgs, encoders, decoders, inputs, commitArg,
                   commitment, all_encoded, all_vq_outs, total_vq_loss,
                   total_vq_mse, last_mse, pos, error, calls, enc, qinit, qd>>

----------------------------------------------------------------------------
(* Encoder.forward                                                         *)

\* line 51: return self.vq(self.forward(x)).  The argument is evaluated
\* first, and it is a call of forward itself: every frame opens another one
\* until the interpreter's recursion limit is hit, and the RecursionError
\* unwinds them all.  Neither encode nor the quantizer is ever called.
EncoderForwardCall(e, x) ==
    /\ Untouched
    /\ enc' = [pc |-> "running", e |-> e, x |-> x, depth |-> 1,
               encodeCalls |-> 0, vqCalls |-> 0, result |-> None, error |-> ""]
    /\ UNCHANGED <<vqvaeVars, qinit, qd>>

EncoderForwardRecurse ==
    /\ enc.pc = "running"
    /\ enc.depth < RecursionLimit
    /\ enc' = [enc EXCEPT !.depth = @ + 1]
    /\ UNCHANGED <<vqvaeVars, qinit, qd>>

EncoderForwardOverflow ==
    /\ enc.pc = "running"
    /\ enc.depth = RecursionLimit
    /\ enc' = [enc EXCEPT !.pc = "raised", !.error = "RecursionError", !.depth = 0]
    /\ UNCHANGED <<vqvaeVars, qinit, qd>>

----------------------------------------------------------------------------
(* QuarterDecoder                                                          *)

ChannelSet == {1, 3}

\* lines 121-126: __init__ assigns self.residual1 without having called
\* super().__init__(), and nn.Module refuses to register a sub-module on an
\* uninitialised module.
QuarterDecoderInit(cin, cout) ==
    /\ Untouched
    /\ qinit' = [pc |-> "raised", in_channels |-> cin, out_channels |-> cout,
                 error |-> "AttributeError"]
    /\ UNCHANGED <<vqvaeVars, enc, qd>>

\* nn.Conv2d output extent along one axis; 0 stands for the RuntimeError
\* raised when the padded input is smaller than the kernel.
ConvOut(n, k, stride, padding) ==
    IF n = 0 \/ n + 2 * padding < k
      THEN 0
      ELSE ((n + 2 * padding - k) \div stride) + 1

\* lines 193-199: Conv2d(3, padding=1) then Conv2d(1)
ResidualOut(n) == ConvOut(ConvOut(n, 3, 1, 1), 1, 1, 0)

\* line 125: nn.Conv2d(in_channels, in_channels, 4, stride=2, padding=1)
Conv1Out(n) == ConvOut(n, 4, 2, 1)

\* line 126: nn.Conv2d(in_channels, out_channels, 4, stride=2, padding=1)
Conv2Out(n) == ConvOut(n, 4, 2, 1)

\* lines 130-135 along one axis
QuarterOut(n) == Conv2Out(Conv1Out(ResidualOut(ResidualOut(n))))

ShapeSet == { [h |-> a, w |-> b] : a \in 1..MaxDim, b \in 1..MaxDim }

\* The input sequences a QuarterDecoder is applied to: none, one, or two maps
\* (the second a square one, as a coarser level's map).
QuarterInputs ==
    {<< >>} \cup { <<s>> : s \in ShapeSet }
            \cup { <<s, [h |-> a, w |-> a]>> : s \in ShapeSet, a \in 1..2 }

\* lines 128-136, applied to a decoder that carries the layers lines 122-126
\* declare (__init__ as written raises before it has set them, see
\* QuarterDecoderInit; forward is modelled on its own so that its arity check
\* and its shape arithmetic are examined).
QuarterDecoderForward(xs) ==
    /\ Untouched
    /\ qd' = IF Len(xs) # 1
               THEN [pc |-> "raised", inputs |-> xs, out |-> None,
                     error |-> "AssertionError"]
               ELSE LET oh == QuarterOut(xs[1].h)
                        ow == QuarterOut(xs[1].w)
                    IN  IF oh = 0 \/ ow = 0
                          THEN [pc |-> "raised", inputs |-> xs, out |-> None,
                                error |-> "RuntimeError"]
                          ELSE [pc |-> "done", inputs |-> xs,
                                out |-> Some([h |-> oh, w |-> ow]), error |-> ""]
    /\ UNCHANGED <<vqvaeVars, enc, qinit>>

----------------------------------------------------------------------------

Init ==
    /\ ctor = "none"
    /\ ctorArgs = << << >>, << >> >>
    /\ encoders = << >>
    /\ decoders = << >>
    /\ pc = "idle"
    /\ inputs = Tensor(0, "input")
    /\ commitArg = None
    /\ commitment = DefaultCommitment
    /\ all_encoded = << >>
    /\ all_vq_outs = << >>
    /\ total_vq_loss = 0
    /\ total_vq_mse = 0
    /\ last_mse = None
    /\ pos = 0
    /\ result = None
    /\ error = ""
    /\ calls = << >>
    /\ enc = [pc |-> "idle", e |-> CHOOSE e \in EncoderSet : TRUE,
              x |-> Tensor(0, "input"), depth |-> 0,
              encodeCalls |-> 0, vqCalls |-> 0, result |-> None, error |-> ""]
    /\ qinit = [pc |-> "idle", in_channels |-> 0, out_channels |-> 0,
                error |-> ""]
    /\ qd = [pc |-> "idle", inputs |-> << >>, out |-> None, error |-> ""]

Next ==
    \/ \E es \in SeqsUpTo(EncoderSet, MaxLevels),
          ds \in SeqsUpTo(DecoderSet, MaxLevels) : VQVAEInit(es, ds)
    \/ \E x \in InputSet, carg \in CommitmentArgs : ForwardCall(x, carg)
    \/ EncodeStep
    \/ EncodeDone
    \/ DecodeStep
    \/ ForwardReturn
    \/ \E e \in EncoderSet, x \in InputSet : EncoderForwardCall(e, x)
    \/ EncoderForwardRecurse
    \/ EncoderForwardOverflow
    \/ \E cin \in ChannelSet, cout \in ChannelSet : QuarterDecoderInit(cin, cout)
    \/ \E xs \in QuarterInputs : QuarterDecoderForward(xs)

Spec == Init /\ [][Next]_vars

----------------------------------------------------------------------------
(* Properties.                                                             *)

N == Len(encoders)

ForwardEnded == pc \in {"done", "raised"}

AllGeneric == \A j \in 1..Len(decoders) : decoders[j].class = "Decoder"

EncoderCalls == SelectSeq(calls, LAMBDA c : c.fn \in {"encode", "vq", "vq_loss"})

DecoderCalls == SelectSeq(calls, LAMBDA c : c.fn = "decoder")

EncodesDone == Len(SelectSeq(calls, LAMBDA c : c.fn = "encode"))

RECURSIVE SumTo(_, _)
SumTo(f, n) == IF n = 0 THEN 0 ELSE f[n] + SumTo(f, n - 1)

\* The quantization loss of level j (1-based) of the pass in progress.
LevelVqLoss(j) ==
    VqLoss(all_encoded[j + 1], VQApply(encoders[j], all_encoded[j + 1])[1],
           commitment)

\* The reconstruction MSE the decoder at position i (0-based) is to yield.
LevelMse(i) ==
    Mse(DecoderApply(decoders[i + 1], DecInputs(all_vq_outs, i)),
        Target(all_encoded, i))

\* C1: a forward pass over N >= 1 levels ends by returning a mapping whose
\* loss is the sum of the N quantization losses and the N reconstruction
\* MSEs and whose final_mse is the MSE of the decoder at position N-1.
C1_ForwardReturnsTotalLoss ==
    (ForwardEnded /\ N >= 1 /\ AllGeneric) =>
        /\ pc = "done"
        /\ result # None
        /\ result[1].loss =
              SumTo([j \in 1..N |-> LevelVqLoss(j)], N)
                + SumTo([j \in 1..N |-> LevelMse(j - 1)], N)
        /\ result[1].final_mse = Some(LevelMse(N - 1))

\* C2: in a finished forward pass over N >= 1 levels the decoder at position
\* i was called once, with the i+1 quantized passthrough tensors of levels
\* N-1, N-2, ..., N-1-i in that order.
C2_DecoderInputsCoarsestFirst ==
    (ForwardEnded /\ N >= 1 /\ AllGeneric) =>
        /\ Len(DecoderCalls) = N
        /\ \A i \in 0..(N - 1) :
              /\ DecoderCalls[i + 1].by = decoders[i + 1]
              /\ DecoderCalls[i + 1].args =
                    [m \in 1..(i + 1) |-> all_vq_outs[N + 1 - m]]

\* C3: applying a concrete encoder ends by returning the quantizer's triple
\* on encode(x), with encode and the quantizer each called once.
C3_EncoderForwardIsVqOfEncode ==
    enc.pc \in {"returned", "raised"} =>
        /\ enc.pc = "returned"
        /\ enc.result = Some(VQApply(enc.e, Encode(enc.e, enc.x)))
        /\ enc.encodeCalls = 1
        /\ enc.vqCalls = 1

\* C4: a construction with lists of different lengths raises the assertion
\* error and yields no model; every model built has as many encoders as
\* decoders, and no forward pass runs without a model.
C4_MismatchRejected ==
    /\ (ctor # "none" /\ Len(ctorArgs[1]) # Len(ctorArgs[2])) =>
          ctor = "AssertionError"
    /\ ctor = "ok" => (Len(encoders) = Len(decoders)
                        /\ <<encoders, decoders>> = ctorArgs)
    /\ ctor # "ok" => (pc = "idle" /\ result = None)

C4_Witness ==
    /\ ctor = "AssertionError"
    /\ Len(ctorArgs[1]) = 2
    /\ Len(ctorArgs[2]) = 1

EmptyRequested == ctor # "none" /\ ctorArgs = << << >>, << >> >>

C6_QuarterDecoderUpsamplesBy4 ==
    (qd.pc # "idle" /\ Len(qd.inputs) = 1) =>
        qd.out = Some([h |-> 4 * qd.inputs[1].h, w |-> 4 * qd.inputs[1].w])

\* The first position i >= 1 (0-based) holding a QuarterDecoder.
FirstQuarterBelowTop ==
    CHOOSE i \in 1..(Len(decoders) - 1) :
        /\ decoders[i + 1].class = "QuarterDecoder"
        /\ \A j \in 1..(i - 1) : decoders[j + 1].class # "QuarterDecoder"

\* C7: a QuarterDecoder applied to other than one input raises the assertion
\* error and yields nothing, and so a forward pass over N >= 2 levels with a
\* QuarterDecoder at a position i >= 1 ends with that error at position i.
C7_QuarterDecoderWrongArity ==
    /\ (qd.pc # "idle" /\ Len(qd.inputs) # 1) =>
          (qd.pc = "raised" /\ qd.error = "AssertionError" /\ qd.out = None)
    /\ (/\ ForwardEnded
        /\ N >= 2
        /\ \E i \in 1..(N - 1) : decoders[i + 1].class = "QuarterDecoder") =>
          /\ pc = "raised"
          /\ error = "AssertionError"
          /\ pos = FirstQuarterBelowTop + 1

\* C8: in a finished forward pass over N >= 1 levels the reconstruction of
\* the decoder at position i was compared with the input of encoder level
\* N-1-i, which for i = N-1 is the raw input.
C8_TargetIsEncoderInput ==
    (ForwardEnded /\ N >= 1 /\ AllGeneric) =>
        /\ Len(DecoderCalls) = N
        /\ \A i \in 0..(N - 1) : DecoderCalls[i + 1].target = all_encoded[N - i]
        /\ DecoderCalls[N].target = inputs

\* C9: once a forward pass has started, all_encoded holds the raw input
\* followed by one tensor per encoder processed and all_vq_outs one tensor
\* per encoder processed; from the end of the encode pass on, every encoder
\* has been processed.
C9_ListLengths ==
    (ctor = "ok" /\ pc # "idle") =>
        /\ Len(all_encoded) = EncodesDone + 1
        /\ Len(all_vq_outs) = EncodesDone
        /\ all_encoded[1] = inputs
        /\ EncodesDone <= N
        /\ pc # "encode" => (Len(all_encoded) = N + 1 /\ Len(all_vq_outs) = N)

C9_Witness ==
    /\ pc = "decode"
    /\ N = 2
    /\ Len(all_encoded) = 3

\* C10: level j of the encode pass is run by the j-th encoder of the list on
\* the continuous tensor all_encoded holds for the level below (the raw
\* input for the first); its continuous output is appended to all_encoded,
\* the passthrough tensor of its quantizer to all_vq_outs, and vq_loss of
\* the continuous output and the plain embedded tensor, with the caller's
\* commitment (0.25 when omitted), is added to total_vq_loss.
C10_EncodePass ==
    (ctor = "ok" /\ pc # "idle") =>
        LET k == Len(all_vq_outs)
            triple(j) == VQApply(encoders[j], all_encoded[j + 1])
        IN  /\ commitment = (IF commitArg = None THEN 25 ELSE commitArg[1])
            /\ Len(EncoderCalls) = 3 * k
            /\ \A j \in 1..k :
                  /\ all_encoded[j].kind \in {"input", "encoded"}
                  /\ EncoderCalls[3 * j - 2] =
                        [fn |-> "encode", by |-> encoders[j],
                         args |-> <<all_encoded[j]>>]
                  /\ all_encoded[j + 1] = Encode(encoders[j], all_encoded[j])
                  /\ EncoderCalls[3 * j - 1] =
                        [fn |-> "vq", by |-> encoders[j],
                         args |-> <<all_encoded[j + 1]>>]
                  /\ all_vq_outs[j] = triple(j)[2]
                  /\ all_vq_outs[j].kind = "passthrough"
                  /\ EncoderCalls[3 * j] =
                        [fn |-> "vq_loss", by |-> encoders[j],
                         args |-> <<all_encoded[j + 1], triple(j)[1],
                                    Tensor(commitment, "scalar")>>]
                  /\ triple(j)[1].kind = "embedded"
            /\ total_vq_loss = SumTo([j \in 1..k |-> LevelVqLoss(j)], k)

C10_Witness ==
    /\ pc = "encode"
    /\ Len(all_vq_outs) = 2
    /\ encoders[1] # encoders[2]
    /\ commitArg = None
    /\ total_vq_loss > 0

====
